---- MODULE Spec2Model ----
(***************************************************************************)
(* A model of mtkidcon.py: the parser of the router's "print detail"       *)
(* dumps (parse_contents), the resolution of a capture file's HH-MM name    *)
(* to a timestamp and the upserts of one file (process_file), and a run of  *)
(* the script (main and the module-level try/except).                       *)
(*                                                                          *)
(* Text is a sequence of characters.  A character up to U+00FF is the       *)
(* string of that one character; a character above U+00FF is the string     *)
(* "U+" followed by its code point in upper-case hexadecimal, four digits   *)
(* at least ("U+0663", "U+1D7CE").  A float is held as the decimal repr()   *)
(* prints for it, [digits, frac] with a sign (value = digits * 10^-frac),   *)
(* or as inf or nan: the byte counts exceed the 32 bit integers of TLC.     *)
(***************************************************************************)
EXTENDS Integers, Sequences, FiniteSets

VARIABLES
    pc,         \* position of the process: idle, started, listing, raised, returned, exited
    db,         \* the committed rows of table mtkidcon, in rowid order
    txn,        \* the rows as the open connection sees them (uncommitted changes included)
    listing,    \* the files of os.listdir(dirname) not yet processed: [filename, contents]
    pending,    \* the observations of the current file not yet executed
    now,        \* the wall clock, as last read
    runLog,     \* the messages this run has logged
    exitStatus, \* exit status of the last run that ended
    caught,     \* how many times the module-level except clause ran in this run
    scpErr,     \* whether scp wrote to stderr in this run
    runs,       \* how many runs have started
    dbBefore,   \* the committed rows when this run started
    upserted,   \* the observations executed in this run, in order
    processed,  \* how many files process_file was called on in this run
    arg,        \* input of the function under study (function-level specifications)
    ret         \* its result

vars == <<pc, db, txn, listing, pending, now, runLog, exitStatus, caught,
          scpErr, runs, dbBefore, upserted, processed, arg, ret>>

runVars == <<pc, db, txn, listing, pending, now, runLog, exitStatus, caught,
             scpErr, runs, dbBefore, upserted, processed>>

----------------------------------------------------------------------------
(* Text *)

Digits == <<"0", "1", "2", "3", "4", "5", "6", "7", "8", "9">>

\* the decimal digits of the other scripts (category Nd of Unicode 14, the
\* table of Python 3.11), a row for each run of ten, from zero to nine
OtherDigits == <<
    <<"U+0660", "U+0661", "U+0662", "U+0663", "U+0664", "U+0665", "U+0666", "U+0667", "U+0668", "U+0669">>,
    <<"U+06F0", "U+06F1", "U+06F2", "U+06F3", "U+06F4", "U+06F5", "U+06F6", "U+06F7", "U+06F8", "U+06F9">>,
    <<"U+07C0", "U+07C1", "U+07C2", "U+07C3", "U+07C4", "U+07C5", "U+07C6", "U+07C7", "U+07C8", "U+07C9">>,
    <<"U+0966", "U+0967", "U+0968", "U+0969", "U+096A", "U+096B", "U+096C", "U+096D", "U+096E", "U+096F">>,
    <<"U+09E6", "U+09E7", "U+09E8", "U+09E9", "U+09EA", "U+09EB", "U+09EC", "U+09ED", "U+09EE", "U+09EF">>,
    <<"U+0A66", "U+0A67", "U+0A68", "U+0A69", "U+0A6A", "U+0A6B", "U+0A6C", "U+0A6D", "U+0A6E", "U+0A6F">>,
    <<"U+0AE6", "U+0AE7", "U+0AE8", "U+0AE9", "U+0AEA", "U+0AEB", "U+0AEC", "U+0AED", "U+0AEE", "U+0AEF">>,
    <<"U+0B66", "U+0B67", "U+0B68", "U+0B69", "U+0B6A", "U+0B6B", "U+0B6C", "U+0B6D", "U+0B6E", "U+0B6F">>,
    <<"U+0BE6", "U+0BE7", "U+0BE8", "U+0BE9", "U+0BEA", "U+0BEB", "U+0BEC", "U+0BED", "U+0BEE", "U+0BEF">>,
    <<"U+0C66", "U+0C67", "U+0C68", "U+0C69", "U+0C6A", "U+0C6B", "U+0C6C", "U+0C6D", "U+0C6E", "U+0C6F">>,
    <<"U+0CE6", "U+0CE7", "U+0CE8", "U+0CE9", "U+0CEA", "U+0CEB", "U+0CEC", "U+0CED", "U+0CEE", "U+0CEF">>,
    <<"U+0D66", "U+0D67", "U+0D68", "U+0D69", "U+0D6A", "U+0D6B", "U+0D6C", "U+0D6D", "U+0D6E", "U+0D6F">>,
    <<"U+0DE6", "U+0DE7", "U+0DE8", "U+0DE9", "U+0DEA", "U+0DEB", "U+0DEC", "U+0DED", "U+0DEE", "U+0DEF">>,
    <<"U+0E50", "U+0E51", "U+0E52", "U+0E53", "U+0E54", "U+0E55", "U+0E56", "U+0E57", "U+0E58", "U+0E59">>,
    <<"U+0ED0", "U+0ED1", "U+0ED2", "U+0ED3", "U+0ED4", "U+0ED5", "U+0ED6", "U+0ED7", "U+0ED8", "U+0ED9">>,
    <<"U+0F20", "U+0F21", "U+0F22", "U+0F23", "U+0F24", "U+0F25", "U+0F26", "U+0F27", "U+0F28", "U+0F29">>,
    <<"U+1040", "U+1041", "U+1042", "U+1043", "U+1044", "U+1045", "U+1046", "U+1047", "U+1048", "U+1049">>,
    <<"U+1090", "U+1091", "U+1092", "U+1093", "U+1094", "U+1095", "U+1096", "U+1097", "U+1098", "U+1099">>,
    <<"U+17E0", "U+17E1", "U+17E2", "U+17E3", "U+17E4", "U+17E5", "U+17E6", "U+17E7", "U+17E8", "U+17E9">>,
    <<"U+1810", "U+1811", "U+1812", "U+1813", "U+1814", "U+1815", "U+1816", "U+1817", "U+1818", "U+1819">>,
    <<"U+1946", "U+1947", "U+1948", "U+1949", "U+194A", "U+194B", "U+194C", "U+194D", "U+194E", "U+194F">>,
    <<"U+19D0", "U+19D1", "U+19D2", "U+19D3", "U+19D4", "U+19D5", "U+19D6", "U+19D7", "U+19D8", "U+19D9">>,
    <<"U+1A80", "U+1A81", "U+1A82", "U+1A83", "U+1A84", "U+1A85", "U+1A86", "U+1A87", "U+1A88", "U+1A89">>,
    <<"U+1A90", "U+1A91", "U+1A92", "U+1A93", "U+1A94", "U+1A95", "U+1A96", "U+1A97", "U+1A98", "U+1A99">>,
    <<"U+1B50", "U+1B51", "U+1B52", "U+1B53", "U+1B54", "U+1B55", "U+1B56", "U+1B57", "U+1B58", "U+1B59">>,
    <<"U+1BB0", "U+1BB1", "U+1BB2", "U+1BB3", "U+1BB4", "U+1BB5", "U+1BB6", "U+1BB7", "U+1BB8", "U+1BB9">>,
    <<"U+1C40", "U+1C41", "U+1C42", "U+1C43", "U+1C44", "U+1C45", "U+1C46", "U+1C47", "U+1C48", "U+1C49">>,
    <<"U+1C50", "U+1C51", "U+1C52", "U+1C53", "U+1C54", "U+1C55", "U+1C56", "U+1C57", "U+1C58", "U+1C59">>,
    <<"U+A620", "U+A621", "U+A622", "U+A623", "U+A624", "U+A625", "U+A626", "U+A627", "U+A628", "U+A629">>,
    <<"U+A8D0", "U+A8D1", "U+A8D2", "U+A8D3", "U+A8D4", "U+A8D5", "U+A8D6", "U+A8D7", "U+A8D8", "U+A8D9">>,
    <<"U+A900", "U+A901", "U+A902", "U+A903", "U+A904", "U+A905", "U+A906", "U+A907", "U+A908", "U+A909">>,
    <<"U+A9D0", "U+A9D1", "U+A9D2", "U+A9D3", "U+A9D4", "U+A9D5", "U+A9D6", "U+A9D7", "U+A9D8", "U+A9D9">>,
    <<"U+A9F0", "U+A9F1", "U+A9F2", "U+A9F3", "U+A9F4", "U+A9F5", "U+A9F6", "U+A9F7", "U+A9F8", "U+A9F9">>,
    <<"U+AA50", "U+AA51", "U+AA52", "U+AA53", "U+AA54", "U+AA55", "U+AA56", "U+AA57", "U+AA58", "U+AA59">>,
    <<"U+ABF0", "U+ABF1", "U+ABF2", "U+ABF3", "U+ABF4", "U+ABF5", "U+ABF6", "U+ABF7", "U+ABF8", "U+ABF9">>,
    <<"U+FF10", "U+FF11", "U+FF12", "U+FF13", "U+FF14", "U+FF15", "U+FF16", "U+FF17", "U+FF18", "U+FF19">>,
    <<"U+104A0", "U+104A1", "U+104A2", "U+104A3", "U+104A4", "U+104A5", "U+104A6", "U+104A7", "U+104A8", "U+104A9">>,
    <<"U+10D30", "U+10D31", "U+10D32", "U+10D33", "U+10D34", "U+10D35", "U+10D36", "U+10D37", "U+10D38", "U+10D39">>,
    <<"U+11066", "U+11067", "U+11068", "U+11069", "U+1106A", "U+1106B", "U+1106C", "U+1106D", "U+1106E", "U+1106F">>,
    <<"U+110F0", "U+110F1", "U+110F2", "U+110F3", "U+110F4", "U+110F5", "U+110F6", "U+110F7", "U+110F8", "U+110F9">>,
    <<"U+11136", "U+11137", "U+11138", "U+11139", "U+1113A", "U+1113B", "U+1113C", "U+1113D", "U+1113E", "U+1113F">>,
    <<"U+111D0", "U+111D1", "U+111D2", "U+111D3", "U+111D4", "U+111D5", "U+111D6", "U+111D7", "U+111D8", "U+111D9">>,
    <<"U+112F0", "U+112F1", "U+112F2", "U+112F3", "U+112F4", "U+112F5", "U+112F6", "U+112F7", "U+112F8", "U+112F9">>,
    <<"U+11450", "U+11451", "U+11452", "U+11453", "U+11454", "U+11455", "U+11456", "U+11457", "U+11458", "U+11459">>,
    <<"U+114D0", "U+114D1", "U+114D2", "U+114D3", "U+114D4", "U+114D5", "U+114D6", "U+114D7", "U+114D8", "U+114D9">>,
    <<"U+11650", "U+11651", "U+11652", "U+11653", "U+11654", "U+11655", "U+11656", "U+11657", "U+11658", "U+11659">>,
    <<"U+116C0", "U+116C1", "U+116C2", "U+116C3", "U+116C4", "U+116C5", "U+116C6", "U+116C7", "U+116C8", "U+116C9">>,
    <<"U+11730", "U+11731", "U+11732", "U+11733", "U+11734", "U+11735", "U+11736", "U+11737", "U+11738", "U+11739">>,
    <<"U+118E0", "U+118E1", "U+118E2", "U+118E3", "U+118E4", "U+118E5", "U+118E6", "U+118E7", "U+118E8", "U+118E9">>,
    <<"U+11950", "U+11951", "U+11952", "U+11953", "U+11954", "U+11955", "U+11956", "U+11957", "U+11958", "U+11959">>,
    <<"U+11C50", "U+11C51", "U+11C52", "U+11C53", "U+11C54", "U+11C55", "U+11C56", "U+11C57", "U+11C58", "U+11C59">>,
    <<"U+11D50", "U+11D51", "U+11D52", "U+11D53", "U+11D54", "U+11D55", "U+11D56", "U+11D57", "U+11D58", "U+11D59">>,
    <<"U+11DA0", "U+11DA1", "U+11DA2", "U+11DA3", "U+11DA4", "U+11DA5", "U+11DA6", "U+11DA7", "U+11DA8", "U+11DA9">>,
    <<"U+16A60", "U+16A61", "U+16A62", "U+16A63", "U+16A64", "U+16A65", "U+16A66", "U+16A67", "U+16A68", "U+16A69">>,
    <<"U+16AC0", "U+16AC1", "U+16AC2", "U+16AC3", "U+16AC4", "U+16AC5", "U+16AC6", "U+16AC7", "U+16AC8", "U+16AC9">>,
    <<"U+16B50", "U+16B51", "U+16B52", "U+16B53", "U+16B54", "U+16B55", "U+16B56", "U+16B57", "U+16B58", "U+16B59">>,
    <<"U+1D7CE", "U+1D7CF", "U+1D7D0", "U+1D7D1", "U+1D7D2", "U+1D7D3", "U+1D7D4", "U+1D7D5", "U+1D7D6", "U+1D7D7">>,
    <<"U+1D7D8", "U+1D7D9", "U+1D7DA", "U+1D7DB", "U+1D7DC", "U+1D7DD", "U+1D7DE", "U+1D7DF", "U+1D7E0", "U+1D7E1">>,
    <<"U+1D7E2", "U+1D7E3", "U+1D7E4", "U+1D7E5", "U+1D7E6", "U+1D7E7", "U+1D7E8", "U+1D7E9", "U+1D7EA", "U+1D7EB">>,
    <<"U+1D7EC", "U+1D7ED", "U+1D7EE", "U+1D7EF", "U+1D7F0", "U+1D7F1", "U+1D7F2", "U+1D7F3", "U+1D7F4", "U+1D7F5">>,
    <<"U+1D7F6", "U+1D7F7", "U+1D7F8", "U+1D7F9", "U+1D7FA", "U+1D7FB", "U+1D7FC", "U+1D7FD", "U+1D7FE", "U+1D7FF">>,
    <<"U+1E140", "U+1E141", "U+1E142", "U+1E143", "U+1E144", "U+1E145", "U+1E146", "U+1E147", "U+1E148", "U+1E149">>,
    <<"U+1E2F0", "U+1E2F1", "U+1E2F2", "U+1E2F3", "U+1E2F4", "U+1E2F5", "U+1E2F6", "U+1E2F7", "U+1E2F8", "U+1E2F9">>,
    <<"U+1E950", "U+1E951", "U+1E952", "U+1E953", "U+1E954", "U+1E955", "U+1E956", "U+1E957", "U+1E958", "U+1E959">>,
    <<"U+1FBF0", "U+1FBF1", "U+1FBF2", "U+1FBF3", "U+1FBF4", "U+1FBF5", "U+1FBF6", "U+1FBF7", "U+1FBF8", "U+1FBF9">> >>

\* the value of every character int() and float() read as a decimal digit
DigitValues ==
    LET rows == <<Digits>> \o OtherDigits
        chars == {rows[r][i] : r \in DOMAIN rows, i \in 1..10}
    IN  [c \in chars |-> (CHOOSE i \in 1..10 : \E r \in DOMAIN rows : rows[r][i] = c) - 1]

IsDigit(c) == c \in DOMAIN DigitValues

DigitVal(c) == DigitValues[c]

\* the characters str.isspace() holds of; those of Latin-1 that TLA+ has no
\* escape for (U+000B, U+001C to U+001F, U+0085, U+00A0) are written as
\* themselves
VT == ""
FS == ""
GS == ""
RS == ""
US == ""
NEL == ""
NBSP == " "

\* the four separators, white space to str.split() and not to int() or float()
Separators == {FS, GS, RS, US}

Whitespace ==
    {" ", "\t", "\n", "\r", "\f", VT, NEL, NBSP} \cup Separators \cup
    {"U+1680", "U+2000", "U+2001", "U+2002", "U+2003", "U+2004",
     "U+2005", "U+2006", "U+2007", "U+2008", "U+2009", "U+200A",
     "U+2028", "U+2029", "U+202F", "U+205F", "U+3000"}

\* the characters int() and float() skip at both ends
NumericSpace == Whitespace \ Separators

\* s without the characters of set at its ends
Trim(s, set) ==
    IF \A i \in 1..Len(s) : s[i] \in set
    THEN <<>>
    ELSE SubSeq(s, CHOOSE i \in 1..Len(s) : s[i] \notin set /\ \A j \in 1..(i - 1) : s[j] \in set,
                   CHOOSE i \in 1..Len(s) : s[i] \notin set /\ \A j \in (i + 1)..Len(s) : s[j] \in set)

\* an underscore may stand between two digits, nowhere else
UnderscoresOk(s) ==
    \A i \in 1..Len(s) :
        s[i] = "_" => i > 1 /\ i < Len(s) /\ IsDigit(s[i - 1]) /\ IsDigit(s[i + 1])

NotUnderscore(c) == c # "_"

\* fd.read() of a file opened in text mode: a line end \r\n or \r is read as \n
RECURSIVE ReadText(_)
ReadText(s) ==
    IF s = <<>> THEN <<>>
    ELSE IF Head(s) = "\r"
    THEN <<"\n">> \o ReadText(IF Len(s) >= 2 /\ s[2] = "\n" THEN Tail(Tail(s)) ELSE Tail(s))
    ELSE <<Head(s)>> \o ReadText(Tail(s))

\* s[a:b] of Python for 0 <= a <= b: the indices are clamped to the length
Slice(s, a, b) ==
    LET hi == IF b > Len(s) THEN Len(s) ELSE b
    IN  IF a >= hi THEN <<>> ELSE SubSeq(s, a + 1, hi)

EndsWith(s, suf) ==
    /\ Len(s) >= Len(suf)
    /\ SubSeq(s, Len(s) - Len(suf) + 1, Len(s)) = suf

\* s[:-3]
DropLast3(s) == IF Len(s) <= 3 THEN <<>> ELSE SubSeq(s, 1, Len(s) - 3)

Contains(s, c) == \E i \in 1..Len(s) : s[i] = c

RECURSIVE SplitWs(_, _, _)
SplitWs(s, cur, acc) ==
    IF s = <<>>
    THEN IF cur = <<>> THEN acc ELSE Append(acc, cur)
    ELSE IF Head(s) \in Whitespace
         THEN SplitWs(Tail(s), <<>>, IF cur = <<>> THEN acc ELSE Append(acc, cur))
         ELSE SplitWs(Tail(s), Append(cur, Head(s)), acc)

\* contents.split(): the runs of non-whitespace characters
Split(s) == SplitWs(s, <<>>, <<>>)

RECURSIVE SplitOn(_, _, _, _)
SplitOn(s, c, cur, acc) ==
    IF s = <<>>
    THEN Append(acc, cur)
    ELSE IF Head(s) = c
         THEN SplitOn(Tail(s), c, <<>>, Append(acc, cur))
         ELSE SplitOn(Tail(s), c, Append(cur, Head(s)), acc)

\* l.split('='): the parts between the separators, empty parts kept
SplitEq(l) == SplitOn(l, "=", <<>>, <<>>)

RECURSIVE StripLeft(_, _)
StripLeft(s, c) ==
    IF s # <<>> /\ Head(s) = c THEN StripLeft(Tail(s), c) ELSE s

RECURSIVE StripRight(_, _)
StripRight(s, c) ==
    IF s # <<>> /\ s[Len(s)] = c
    THEN StripRight(SubSeq(s, 1, Len(s) - 1), c)
    ELSE s

\* value.strip('"')
StripQuotes(s) == StripRight(StripLeft(s, "\""), "\"")

----------------------------------------------------------------------------
(* Naturals of any size: sequences of decimal digits, most significant      *)
(* first, <<>> for zero.  The operators build their result digit by digit,  *)
(* without recursion over the digits, so that they take long numbers.       *)

Zeros(n) == [i \in 1..n |-> 0]

StripLeadingZeros(ds) ==
    IF \A i \in 1..Len(ds) : ds[i] = 0
    THEN <<>>
    ELSE SubSeq(ds, CHOOSE i \in 1..Len(ds) :
                        ds[i] # 0 /\ \A j \in 1..(i - 1) : ds[j] = 0,
                Len(ds))

\* how many zeros end ds
TrailingZeros(ds) ==
    IF \A i \in 1..Len(ds) : ds[i] = 0
    THEN Len(ds)
    ELSE Len(ds) - (CHOOSE i \in 1..Len(ds) :
                        ds[i] # 0 /\ \A j \in (i + 1)..Len(ds) : ds[j] = 0)

NatLess(a, b) ==
    \/ Len(a) < Len(b)
    \/ /\ Len(a) = Len(b)
       /\ \E i \in 1..Len(a) : a[i] < b[i] /\ \A j \in 1..(i - 1) : a[j] = b[j]

NatOdd(a) == a # <<>> /\ a[Len(a)] % 2 = 1

\* a + a
NatTwice(a) ==
    LET body == [i \in 1..Len(a) |->
                    ((2 * a[i]) % 10) + (IF i < Len(a) /\ a[i + 1] >= 5 THEN 1 ELSE 0)]
    IN  IF a # <<>> /\ a[1] >= 5 THEN <<1>> \o body ELSE body

\* a \div 2
NatHalf(a) ==
    LET body == [i \in 1..Len(a) |->
                    (a[i] + (IF i > 1 /\ a[i - 1] % 2 = 1 THEN 10 ELSE 0)) \div 2]
    IN  IF a # <<>> /\ a[1] < 2 THEN Tail(body) ELSE body

\* a + 1
NatInc(a) ==
    IF \A i \in 1..Len(a) : a[i] = 9
    THEN <<1>> \o Zeros(Len(a))
    ELSE LET p == CHOOSE i \in 1..Len(a) :
                      a[i] # 9 /\ \A j \in (i + 1)..Len(a) : a[j] = 9
         IN  [i \in 1..Len(a) |-> IF i < p THEN a[i] ELSE IF i = p THEN a[i] + 1 ELSE 0]

\* a - 1, for a # <<>>
NatDec(a) ==
    LET p == CHOOSE i \in 1..Len(a) : a[i] # 0 /\ \A j \in (i + 1)..Len(a) : a[j] = 0
    IN  StripLeadingZeros([i \in 1..Len(a) |->
                              IF i < p THEN a[i] ELSE IF i = p THEN a[i] - 1 ELSE 9])

\* a * 5
NatTimes5(a) == NatHalf(a \o <<0>>)

\* n doublings, n halvings, n products by 5, for a small n
RECURSIVE NatTwiceN(_, _)
NatTwiceN(a, n) == IF n = 0 \/ a = <<>> THEN a ELSE NatTwiceN(NatTwice(a), n - 1)

RECURSIVE NatHalfN(_, _)
NatHalfN(a, n) == IF n = 0 \/ a = <<>> THEN a ELSE NatHalfN(NatHalf(a), n - 1)

RECURSIVE NatTimes5N(_, _)
NatTimes5N(a, n) == IF n = 0 \/ a = <<>> THEN a ELSE NatTimes5N(NatTimes5(a), n - 1)

\* a * 2^k, the doublings taken 9 at a time and those 10 at a time
RECURSIVE NatTimesPow2(_, _)
NatTimesPow2(a, k) ==
    IF a = <<>> \/ k <= 9 THEN NatTwiceN(a, k)
    ELSE IF k <= 90 THEN NatTimesPow2(NatTwiceN(a, 9), k - 9)
    ELSE NatTimesPow2(NatTimesPow2(a, 90), k - 90)

\* a * 5^k
RECURSIVE NatTimesPow5(_, _)
NatTimesPow5(a, k) ==
    IF a = <<>> \/ k <= 9 THEN NatTimes5N(a, k)
    ELSE IF k <= 90 THEN NatTimesPow5(NatTimes5N(a, 9), k - 9)
    ELSE NatTimesPow5(NatTimesPow5(a, 90), k - 90)

Pow2(k) == NatTimesPow2(<<1>>, k)

\* the value of a number of at most nine digits
RECURSIVE NatValue(_)
NatValue(ds) ==
    IF ds = <<>> THEN 0 ELSE 10 * NatValue(SubSeq(ds, 1, Len(ds) - 1)) + ds[Len(ds)]

\* a % 2^k for k <= 9: the last nine digits decide
NatModPow2(a, k) ==
    NatValue(SubSeq(a, IF Len(a) > 9 THEN Len(a) - 8 ELSE 1, Len(a))) % (2^k)

RECURSIVE IntDigits(_)
IntDigits(n) == IF n = 0 THEN <<>> ELSE Append(IntDigits(n \div 10), n % 10)

RECURSIVE MulDigits(_, _, _)
MulDigits(ds, k, carry) ==
    IF ds = <<>>
    THEN IntDigits(carry)
    ELSE LET p == ds[Len(ds)] * k + carry
         IN  Append(MulDigits(SubSeq(ds, 1, Len(ds) - 1), k, p \div 10), p % 10)

----------------------------------------------------------------------------
(* Floats.  A finite float is held as the decimal repr() prints for it: the *)
(* shortest decimal that float() reads back as the same double (digits and  *)
(* frac: value = digits * 10^-frac, with a sign).  The doubles themselves   *)
(* are m * 2^e with m < 2^53 and -1074 <= e <= 971.                         *)

Finite(neg, ds, frac) == [kind |-> "finite", neg |-> neg, digits |-> ds, frac |-> frac]

Zero == Finite(FALSE, <<>>, 0)

Inf(neg) == [kind |-> "inf", neg |-> neg, digits |-> <<>>, frac |-> 0]

NaN == [kind |-> "nan", neg |-> FALSE, digits |-> <<>>, frac |-> 0]

\* one representation for each value: no leading zero, no trailing zero after the point
Canon(d) ==
    LET drop == IF d.frac <= 0 THEN 0
                ELSE IF TrailingZeros(d.digits) < d.frac THEN TrailingZeros(d.digits)
                ELSE d.frac
        ds == StripLeadingZeros(SubSeq(d.digits, 1, Len(d.digits) - drop))
    IN  [d EXCEPT !.digits = ds, !.frac = IF ds = <<>> THEN 0 ELSE d.frac - drop]

\* sig * 10^p for a sig without leading or trailing zeros, as a finite float
Decimal(neg, sig, p) ==
    IF p >= 0 THEN Finite(neg, sig \o Zeros(p), 0) ELSE Finite(neg, sig, 0 - p)

\* the significant digits of a finite float and their power of ten
Significand(x) ==
    LET ds == StripLeadingZeros(x.digits)
    IN  SubSeq(ds, 1, Len(ds) - TrailingZeros(ds))

PowerOfTen(x) == TrailingZeros(x.digits) - x.frac

P == [k \in {25, 43, 52, 53, 62} |-> Pow2(k)]

\* what a division by a power of two leaves behind, against half the divisor:
\* r is the remainder, below what earlier divisions had left
Lost(r, half, below) ==
    IF r = 0 THEN (IF below = "none" THEN "none" ELSE "below")
    ELSE IF r < half THEN "below"
    ELSE IF r > half THEN "above"
    ELSE IF below = "none" THEN "half" ELSE "above"

\* the same for a decimal fraction 0.f
FractionLost(f) ==
    IF \A i \in 1..Len(f) : f[i] = 0 THEN "none"
    ELSE IF f[1] < 5 THEN "below"
    ELSE IF f[1] > 5 \/ \E i \in 2..Len(f) : f[i] # 0 THEN "above"
    ELSE "half"

IntPart(a, m) == IF Len(a) <= m THEN <<>> ELSE SubSeq(a, 1, Len(a) - m)

FracPart(a, m) ==
    IF Len(a) >= m THEN SubSeq(a, Len(a) - m + 1, Len(a)) ELSE Zeros(m - Len(a)) \o a

\* s.m halved k times, k <= 9, with what the divisions leave behind
Halve(s, k) ==
    [m |-> NatHalfN(s.m, k),
     lost |-> Lost(NatModPow2(s.m, k), 2^(k - 1), s.lost),
     e |-> s.e + k]

\* s.m halved 9 times while it is 2^62 or more, n times at most
RECURSIVE HalveN(_, _)
HalveN(s, n) == IF n = 0 \/ NatLess(s.m, P[62]) THEN s ELSE HalveN(Halve(s, 9), n - 1)

\* an integer of 2^53 or more, halved until it is below 2^53
RECURSIVE ScaleDown(_)
ScaleDown(s) ==
    IF NatLess(s.m, P[53]) THEN s
    ELSE IF ~NatLess(s.m, P[62]) THEN ScaleDown(HalveN(s, 12))
    ELSE ScaleDown(Halve(s, 1))

\* a / 10^m below 2^52, doubled until its integer part reaches 2^52 or the
\* exponent its least value: 216 doublings at once where a / 10^m is below
\* 10^-50 (2^216 / 10^50 is below 2^52), 27 where it is below 2^25, 9 below 2^43
RECURSIVE ScaleUp(_, _, _)
ScaleUp(a, m, e) ==
    IF ~NatLess(IntPart(a, m), P[52]) \/ e = -1074
    THEN [m |-> IntPart(a, m), lost |-> FractionLost(FracPart(a, m)), e |-> e]
    ELSE IF Len(a) + 50 <= m /\ e >= -858 THEN ScaleUp(NatTimesPow2(a, 216), m, e - 216)
    ELSE IF NatLess(IntPart(a, m), P[25]) /\ e >= -1047 THEN ScaleUp(NatTimesPow2(a, 27), m, e - 27)
    ELSE IF NatLess(IntPart(a, m), P[43]) /\ e >= -1065 THEN ScaleUp(NatTwiceN(a, 9), m, e - 9)
    ELSE ScaleUp(NatTwice(a), m, e - 1)

\* round to nearest, ties to even
RoundEven(s) ==
    [m |-> IF s.lost = "above" \/ (s.lost = "half" /\ NatOdd(s.m)) THEN NatInc(s.m) ELSE s.m,
     e |-> s.e]

\* the double nearest to a / 10^m: [m, e], m * 2^e >= 2^1024 standing for infinity
NearestScaled(a, m) ==
    RoundEven(IF ~NatLess(IntPart(a, m), P[53])
              THEN ScaleDown([m |-> IntPart(a, m), lost |-> FractionLost(FracPart(a, m)),
                              e |-> 0])
              ELSE ScaleUp(a, m, 0))

\* the double nearest to sig * 10^p (sig # <<>>)
NearestDouble(sig, p) ==
    IF p >= 0 THEN NearestScaled(sig \o Zeros(p), 0) ELSE NearestScaled(sig, 0 - p)

Overflows(d) == d.e > 971 \/ (d.e = 971 /\ d.m = P[53])

\* m in [2^52, 2^53), or the exponent at its least value
RECURSIVE Normal(_)
Normal(d) ==
    IF d.m = P[53] THEN [m |-> P[52], e |-> d.e + 1]
    ELSE IF NatLess(d.m, P[52]) /\ d.e > -1074
    THEN Normal([m |-> NatTwice(d.m), e |-> d.e - 1])
    ELSE d

\* n * 2^e as digits with DecimalPlaces(e) of them after the point
Scaled(n, e) == IF e >= 0 THEN NatTimesPow2(n, e) ELSE NatTimesPow5(n, 0 - e)

DecimalPlaces(e) == IF e >= 0 THEN 0 ELSE 0 - e

\* the shortest decimal between lo and hi (the ends count when ends is true),
\* the nearest to v among the shortest: tried with n digits, then n + 1
RECURSIVE Shortest(_, _, _, _, _)
Shortest(v, lo, hi, ends, n) ==
    IF n >= Len(v) THEN v
    ELSE LET rest == Len(v) - n
             down == SubSeq(v, 1, n) \o Zeros(rest)
             up   == NatInc(SubSeq(v, 1, n)) \o Zeros(rest)
             In(c) == \/ NatLess(lo, c) /\ NatLess(c, hi)
                      \/ ends /\ (c = lo \/ c = hi)
             tail == FractionLost(SubSeq(v, n + 1, Len(v)))
             nearer == IF tail \in {"none", "below"} THEN down
                       ELSE IF tail = "above" THEN up
                       ELSE IF v[n] % 2 = 0 THEN down ELSE up
         IN  IF In(down) /\ In(up) THEN nearer
             ELSE IF In(down) THEN down
             ELSE IF In(up) THEN up
             ELSE Shortest(v, lo, hi, ends, n + 1)

\* the decimal of the double four * 2^e / 4 whose neighbours lie half way at
\* lo and hi
ReprBetween(neg, four, lo, hi, e, ends) ==
    Canon(Finite(neg, Shortest(Scaled(four, e), Scaled(lo, e), Scaled(hi, e), ends, 1),
                 DecimalPlaces(e)))

\* lo, in quarters of a step, for the mantissa m with quadruple four
ReprLow(d, four) ==
    IF d.m = P[52] /\ d.e > -1074 THEN NatDec(four) ELSE NatDec(NatDec(four))

ReprFour(neg, d, four) ==
    ReprBetween(neg, four, ReprLow(d, four), NatInc(NatInc(four)), d.e - 2, ~NatOdd(d.m))

\* repr of the double d (normal form, m # <<>>): a decimal is read as d when
\* it lies within half a step of it, the steps below a power of two being
\* half as long as those above
Repr(neg, d) == ReprFour(neg, d, NatTwice(NatTwice(d.m)))

\* the float a double stands for
FromDouble(neg, d) ==
    IF d.m = <<>> THEN Finite(neg, <<>>, 0)
    ELSE IF Overflows(d) THEN Inf(neg)
    ELSE Repr(neg, Normal(d))

\* the float nearest to sig * 10^q, for a sig without zeros at its ends.  A
\* decimal of at most 15 digits, well inside the range of the doubles, is
\* itself the repr of the double nearest to it; a decimal of 10^309 or more is
\* read as infinity, one below 10^-323 as zero
FloatOfSig(neg, sig, q) ==
    IF sig = <<>> THEN Finite(neg, <<>>, 0)
    ELSE IF Len(sig) + q > 309 THEN Inf(neg)
    ELSE IF Len(sig) + q < -323 THEN Finite(neg, <<>>, 0)
    ELSE IF Len(sig) <= 15 /\ Len(sig) + q >= -300 /\ Len(sig) + q <= 300
    THEN Decimal(neg, sig, q)
    ELSE FromDouble(neg, NearestDouble(sig, q))

\* ds without the zeros at its ends
Stripped(ds) ==
    SubSeq(StripLeadingZeros(ds), 1, Len(StripLeadingZeros(ds)) - TrailingZeros(ds))

\* the float nearest to ds * 10^p
FloatOf(neg, ds, p) ==
    FloatOfSig(neg, Stripped(ds),
               IF Stripped(ds) = <<>> THEN 0 ELSE p + TrailingZeros(ds))

ShiftExponent(d, k) == [d EXCEPT !.e = @ + k]

\* the double sig * 10^p times 1024, with prod = sig * 1024: the exponent of
\* the double goes up by ten, nothing is rounded
Times1024Of(neg, sig, p, prod) ==
    IF Len(prod) - TrailingZeros(prod) <= 15 /\ Len(sig) + p >= -300 /\ Len(prod) + p <= 300
    THEN Decimal(neg, SubSeq(prod, 1, Len(prod) - TrailingZeros(prod)),
                 p + TrailingZeros(prod))
    ELSE FromDouble(neg, ShiftExponent(NearestDouble(sig, p), 10))

\* x * 1024
Times1024(x) ==
    IF x.kind # "finite" \/ x.digits = <<>>
    THEN x
    ELSE Times1024Of(x.neg, Significand(x), PowerOfTen(x), MulDigits(Significand(x), 1024, 0))

ToDigits(s) == [i \in 1..Len(s) |-> DigitVal(s[i])]

Lower(c) ==
    IF c = "A" THEN "a" ELSE IF c = "F" THEN "f" ELSE IF c = "I" THEN "i"
    ELSE IF c = "N" THEN "n" ELSE IF c = "T" THEN "t" ELSE IF c = "Y" THEN "y" ELSE c

\* s is the word w, in any case
IsWord(s, w) == Len(s) = Len(w) /\ \A i \in 1..Len(s) : Lower(s[i]) = w[i]

\* a numeral without its sign, and whether the sign is a minus
Unsigned(s) == IF s # <<>> /\ Head(s) \in {"+", "-"} THEN Tail(s) ELSE s

Negative(s) == s # <<>> /\ Head(s) = "-"

AllDigits(s) == \A i \in 1..Len(s) : IsDigit(s[i])

\* the value of the digits of an exponent, its leading zeros left out: the
\* parser of float() reads nine digits and takes a longer exponent as
\* 1100000000
ExponentDigits(sig) == IF Len(sig) > 9 THEN 1100000000 ELSE NatValue(sig)

\* the value of the exponent expo: a sign may come first
ExponentValue(expo) ==
    IF Negative(expo)
    THEN 0 - ExponentDigits(StripLeadingZeros(ToDigits(Unsigned(expo))))
    ELSE ExponentDigits(StripLeadingZeros(ToDigits(Unsigned(expo))))

\* the parser of float() refuses whole.frac when it counts more than 10^9
\* digits after the point, or more than 10^9 in all: those of whole after its
\* leading zeros and those of frac (after its leading zeros when nothing is
\* left of whole)
TooLong(whole, frac) ==
    \/ Len(frac) > 1000000000
    \/ (IF StripLeadingZeros(whole) = <<>> THEN Len(StripLeadingZeros(frac))
        ELSE Len(StripLeadingZeros(whole)) + Len(frac)) > 1000000000

\* digits with at most one point among them, then e or E and an exponent if
\* hasExp
FloatDecimal(neg, mant, expo, hasExp) ==
    LET dots == {i \in 1..Len(mant) : mant[i] = "."}
        point == IF dots = {} THEN Len(mant) + 1 ELSE CHOOSE i \in dots : TRUE
        good == /\ Cardinality(dots) <= 1
                /\ \A i \in 1..Len(mant) : mant[i] = "." \/ IsDigit(mant[i])
                /\ \E i \in 1..Len(mant) : IsDigit(mant[i])
                /\ ~TooLong(ToDigits(SubSeq(mant, 1, point - 1)),
                            ToDigits(SubSeq(mant, point + 1, Len(mant))))
                /\ hasExp => Unsigned(expo) # <<>> /\ AllDigits(Unsigned(expo))
    IN  IF ~good THEN [ok |-> FALSE, val |-> Zero]
        ELSE [ok |-> TRUE,
              val |-> FloatOf(neg, ToDigits(SelectSeq(mant, IsDigit)),
                              (IF hasExp THEN ExponentValue(expo) ELSE 0)
                              - (IF dots = {} THEN 0
                                 ELSE Len(mant) - (CHOOSE i \in dots : TRUE)))]

\* a numeral after its sign: inf, infinity or nan in any case, or a decimal
FloatUnsigned(neg, r) ==
    LET es == {i \in 1..Len(r) : r[i] \in {"e", "E"}}
        ep == IF es = {} THEN Len(r) + 1 ELSE CHOOSE i \in es : \A j \in es : i <= j
    IN  IF IsWord(r, <<"i", "n", "f">>)
           \/ IsWord(r, <<"i", "n", "f", "i", "n", "i", "t", "y">>)
        THEN [ok |-> TRUE, val |-> Inf(neg)]
        ELSE IF IsWord(r, <<"n", "a", "n">>) THEN [ok |-> TRUE, val |-> NaN]
        ELSE FloatDecimal(neg, SubSeq(r, 1, ep - 1), SubSeq(r, ep + 1, Len(r)), es # {})

\* a numeral without white space at its ends: underscores may stand between
\* digits and are dropped
FloatLiteral(t) ==
    IF ~UnderscoresOk(t) THEN [ok |-> FALSE, val |-> Zero]
    ELSE FloatUnsigned(Negative(t), SelectSeq(Unsigned(t), NotUnderscore))

\* float(s): [ok, val]; ok is false when float raises ValueError
ParseFloat(s) == FloatLiteral(Trim(s, NumericSpace))

----------------------------------------------------------------------------
(* parse_contents *)

KeyName == <<"n", "a", "m", "e">>
KeyBytesUp == <<"b", "y", "t", "e", "s", "-", "u", "p">>
KeyBytesDown == <<"b", "y", "t", "e", "s", "-", "d", "o", "w", "n">>

KiB == <<"K", "i", "B">>
MiB == <<"M", "i", "B">>
GiB == <<"G", "i", "B">>

\* the values of the dictionaries: a str or a float, in one shape
PyStr(s) == [isNum |-> FALSE, text |-> s, num |-> Zero]
PyFloat(x) == [isNum |-> TRUE, text |-> <<>>, num |-> x]

\* how many factors of 1024 the suffix of a value stands for
UnitFactors(value) ==
    IF EndsWith(value, KiB) THEN 1
    ELSE IF EndsWith(value, MiB) THEN 2
    ELSE IF EndsWith(value, GiB) THEN 3
    ELSE 0

\* the text handed to float(): value[:-3] under a known suffix
NumberText(value) == IF UnitFactors(value) > 0 THEN DropLast3(value) ELSE value

\* x * 1024 * ... * 1024, n factors, every product rounded as it is taken
RECURSIVE Times1024N(_, _)
Times1024N(x, n) == IF n = 0 THEN x ELSE Times1024N(Times1024(x), n - 1)

\* the result f of float() with the factors applied
Scale(f, n) == [ok |-> f.ok, val |-> Times1024N(f.val, n)]

\* x * 1000 as a decimal
Times1000(x) == Canon([x EXCEPT !.digits = MulDigits(x.digits, 1000, 0)])

RECURSIVE Times1000N(_, _)
Times1000N(x, n) == IF n = 0 THEN x ELSE Times1000N(Times1000(x), n - 1)

ScaleDecimal(f, n) == [ok |-> f.ok, val |-> Times1000N(f.val, n)]

\* faulty variant: the units taken as decimal multiples
ParseBytesDecimal(value) == ScaleDecimal(ParseFloat(NumberText(value)), UnitFactors(value))

RECURSIVE NumericPrefix(_)
NumericPrefix(s) ==
    IF s # <<>> /\ (IsDigit(Head(s)) \/ Head(s) = ".")
    THEN <<Head(s)>> \o NumericPrefix(Tail(s))
    ELSE <<>>

\* faulty variant: a value with no known unit cut to its numeric prefix
ParseBytesPrefix(value) ==
    Scale(ParseFloat(IF UnitFactors(value) > 0 THEN DropLast3(value)
                     ELSE NumericPrefix(value)),
          UnitFactors(value))

\* the conversion of a bytes-up or bytes-down value
ParseBytes(value) == Scale(ParseFloat(NumberText(value)), UnitFactors(value))

\* h is a dict in insertion order: a sequence of [name, fields], fields a
\* function from keys to values
IndexOf(h, name) ==
    IF \E i \in 1..Len(h) : h[i].name = name
    THEN CHOOSE i \in 1..Len(h) : h[i].name = name
    ELSE 0

EmptyFields == [k \in {} |-> PyStr(<<>>)]

\* faulty variant: h.setdefault(name, {}): a repeated name keeps its mapping
ResetEntryKeep(h, name) ==
    IF IndexOf(h, name) = 0
    THEN Append(h, [name |-> name, fields |-> EmptyFields])
    ELSE h

\* h[name] = {}
ResetEntry(h, name) ==
    IF IndexOf(h, name) = 0
    THEN Append(h, [name |-> name, fields |-> EmptyFields])
    ELSE [h EXCEPT ![IndexOf(h, name)].fields = EmptyFields]

\* h[name][key] = value
SetField(h, name, key, value) ==
    LET i == IndexOf(h, name)
        f == h[i].fields
    IN  [h EXCEPT ![i].fields =
            [k \in DOMAIN f \cup {key} |-> IF k = key THEN value ELSE f[k]]]

NoError == "none"

ParseStart == [h |-> <<>>, hasName |-> FALSE, name |-> <<>>, err |-> NoError]

\* lines 74 to 78: the value is kept under its key, or starts a device
StoreValue(st, key, text, value) ==
    IF key = KeyName
    THEN [st EXCEPT !.hasName = TRUE, !.name = text, !.h = ResetEntry(st.h, text)]
    ELSE IF ~st.hasName
    THEN [st EXCEPT !.err = "KeyError"]
    ELSE [st EXCEPT !.h = SetField(st.h, st.name, key, value)]

\* lines 65 to 73: a byte count is converted
StoreBytes(st, key, text, conv) ==
    IF ~conv.ok THEN [st EXCEPT !.err = "ValueError"]
    ELSE StoreValue(st, key, text, PyFloat(conv.val))

\* lines 64 to 78 for a key and the text of its value, quotes stripped
StoreToken(st, key, text) ==
    IF key \in {KeyBytesDown, KeyBytesUp}
    THEN StoreBytes(st, key, text, ParseBytes(text))
    ELSE StoreValue(st, key, text, PyStr(text))

\* the body of the loop for one token l
ParseToken(st, l) ==
    IF st.err # NoError \/ ~Contains(l, "=")
    THEN st
    ELSE IF Len(SplitEq(l)) # 2
    THEN [st EXCEPT !.err = "ValueError"]
    ELSE StoreToken(st, SplitEq(l)[1], StripQuotes(SplitEq(l)[2]))

RECURSIVE ParseTokens(_, _)
ParseTokens(st, ls) ==
    IF ls = <<>> THEN st ELSE ParseTokens(ParseToken(st, Head(ls)), Tail(ls))

\* what parse_contents returns from the state its loop ends in
ParseResult(st) == [h |-> IF st.err = NoError THEN st.h ELSE <<>>, err |-> st.err]

\* parse_contents(contents): [h, err]; err names the exception raised, if any
parse_contents(contents) == ParseResult(ParseTokens(ParseStart, Split(contents)))

\* the byte counts process_file takes from the dictionary, one per name
Observation(e) ==
    [name |-> e.name,
     bytes_up |-> IF KeyBytesUp \in DOMAIN e.fields
                  THEN e.fields[KeyBytesUp].num ELSE Zero,
     bytes_down |-> IF KeyBytesDown \in DOMAIN e.fields
                    THEN e.fields[KeyBytesDown].num ELSE Zero]

Observations(h) == [i \in 1..Len(h) |-> Observation(h[i])]

----------------------------------------------------------------------------
(* process_file: the timestamp of a capture file *)

IsLeap(y) == (y % 4 = 0 /\ y % 100 # 0) \/ y % 400 = 0

DaysInMonth(y, m) ==
    IF m = 2 THEN (IF IsLeap(y) THEN 29 ELSE 28)
    ELSE IF m \in {4, 6, 9, 11} THEN 30 ELSE 31

\* datetime(y, m, d, hh, mm): ValueError when a field is out of range
MakeDatetime(y, m, d, hh, mm) ==
    [ok |-> /\ m \in 1..12
            /\ d >= 1 /\ d <= DaysInMonth(y, m)
            /\ hh \in 0..23
            /\ mm \in 0..59,
     dt |-> [year |-> y, month |-> m, day |-> d, hour |-> hh, minute |-> mm,
             second |-> 0, microsecond |-> 0]]

Fields(t) == <<t.year, t.month, t.day, t.hour, t.minute, t.second, t.microsecond>>

RECURSIVE LexLess(_, _)
LexLess(a, b) ==
    /\ a # <<>>
    /\ \/ Head(a) < Head(b)
       \/ Head(a) = Head(b) /\ LexLess(Tail(a), Tail(b))

\* a < b on datetimes
Before(a, b) == LexLess(Fields(a), Fields(b))

RECURSIVE DigitsValue(_, _)
DigitsValue(s, acc) ==
    IF s = <<>> THEN acc ELSE DigitsValue(Tail(s), 10 * acc + DigitVal(Head(s)))

\* a numeral of int() without white space at its ends
IntLiteral(t) ==
    LET body == SelectSeq(Unsigned(t), NotUnderscore)
        good == UnderscoresOk(Unsigned(t)) /\ body # <<>> /\ AllDigits(body)
    IN  [ok |-> good,
         val |-> IF ~good THEN 0
                 ELSE IF Negative(t) THEN 0 - DigitsValue(body, 0) ELSE DigitsValue(body, 0)]

\* int(s): white space at both ends is skipped, then a sign may come, then
\* digits, with single underscores between them if any; of a value below 2^31
ParseInt(s) == IntLiteral(Trim(s, NumericSpace))

\* the day the code rolls back to when the candidate is in the future
RollbackDay(day) == day - 1

\* lines 89 and 90: today's candidate, or the one of the day before when
\* today's is later than the clock
RollBack(clock, today, back) ==
    IF ~today.ok
    THEN [err |-> "ValueError", dt |-> clock]
    ELSE IF ~Before(clock, today.dt)
    THEN [err |-> NoError, dt |-> today.dt]
    ELSE IF ~back.ok
    THEN [err |-> "ValueError", dt |-> clock]
    ELSE [err |-> NoError, dt |-> back.dt]

\* lines 88 to 90 for the results hh and mm of int()
ResolveAt(clock, hh, mm) ==
    IF ~hh.ok \/ ~mm.ok
    THEN [err |-> "ValueError", dt |-> clock]
    ELSE RollBack(clock,
                  MakeDatetime(clock.year, clock.month, clock.day, hh.val, mm.val),
                  MakeDatetime(clock.year, clock.month, RollbackDay(clock.day),
                               hh.val, mm.val))

\* lines 85 to 90: the datetime of the capture named filename, read at clock
ResolveTimestamp(clock, filename) ==
    ResolveAt(clock, ParseInt(Slice(filename, 0, 2)), ParseInt(Slice(filename, 3, 5)))

\* dt.isoformat(): date and time joined by T (the microsecond is 0 and left out)
IsoFormat(dt) ==
    [date |-> <<dt.year, dt.month, dt.day>>, sep |-> "T",
     time |-> <<dt.hour, dt.minute, dt.second>>]

\* datetime(?) of SQLite on an ISO-8601 text: the same instant, joined by a space
SqliteDatetime(iso) == [iso EXCEPT !.sep = " "]

Null == [kind |-> "null", neg |-> FALSE, digits |-> <<>>, frac |-> 0]

\* a byte count as its NUMERIC column holds it: NULL for a nan, 0 for -0.0,
\* every other number as it is
SqliteNumeric(x) ==
    IF x.kind = "nan" THEN Null
    ELSE IF x.kind = "finite" /\ x.digits = <<>> THEN Zero
    ELSE x

\* the rows of a file parsed as kc and stamped ts; clockRead tells whether
\* line 87 was reached
FileRows(kc, ts) ==
    IF kc.err # NoError
    THEN [err |-> kc.err, clockRead |-> FALSE, rows |-> <<>>]
    ELSE IF ts.err # NoError
    THEN [err |-> ts.err, clockRead |-> TRUE, rows |-> <<>>]
    ELSE [err |-> NoError, clockRead |-> TRUE,
          rows |-> [i \in 1..Len(kc.h) |->
                      [timestamp |-> SqliteDatetime(IsoFormat(ts.dt)),
                       name |-> Observation(kc.h[i]).name,
                       bytes_up |-> SqliteNumeric(Observation(kc.h[i]).bytes_up),
                       bytes_down |-> SqliteNumeric(Observation(kc.h[i]).bytes_down)]]]

\* what process_file does before its first execute: the rows it will upsert,
\* from the text of the file
process_file(clock, filename, text) ==
    FileRows(parse_contents(ReadText(text)), ResolveTimestamp(clock, filename))

----------------------------------------------------------------------------
(* The table and the statements run against it *)

SameIdentity(r, o) == r.timestamp = o.timestamp /\ r.name = o.name

\* faulty variant: a table without its primary key: every execute inserts
UpsertInsertOnly(rows, o) == Append(rows, o)

\* faulty variant: ON CONFLICT DO NOTHING: the first write wins
UpsertKeepFirst(rows, o) ==
    IF \E i \in 1..Len(rows) : SameIdentity(rows[i], o) THEN rows ELSE Append(rows, o)

\* INSERT INTO mtkidcon VALUES(datetime(?), ?, ?, ?)
\* ON CONFLICT(timestamp, name) DO UPDATE SET bytes_up = ?, bytes_down = ?
Upsert(rows, o) ==
    IF \E i \in 1..Len(rows) : SameIdentity(rows[i], o)
    THEN [i \in 1..Len(rows) |->
            IF SameIdentity(rows[i], o)
            THEN [rows[i] EXCEPT !.bytes_up = o.bytes_up, !.bytes_down = o.bytes_down]
            ELSE rows[i]]
    ELSE Append(rows, o)

\* faulty variant: the commit left out
AfterCommitLost(committed, view) == committed

\* con.commit(): the connection's view becomes the committed table
AfterCommit(committed, view) == view

----------------------------------------------------------------------------
(* The state between runs, held fixed by the function-level specifications *)

Clock(y, mo, d, h, mi, s, us) ==
    [year |-> y, month |-> mo, day |-> d, hour |-> h, minute |-> mi,
     second |-> s, microsecond |-> us]

RunInit ==
    /\ pc = "idle"
    /\ db = <<>>
    /\ txn = <<>>
    /\ listing = <<>>
    /\ pending = <<>>
    /\ runLog = <<>>
    /\ exitStatus = 0
    /\ caught = 0
    /\ scpErr = FALSE
    /\ runs = 0
    /\ dbBefore = <<>>
    /\ upserted = <<>>
    /\ processed = 0

----------------------------------------------------------------------------
(* parse_contents and the byte counts of one file, on bounded inputs *)

MaxTokens == 3

Tok(key, value) == key \o <<"=">> \o value

RECURSIVE Join(_)
Join(toks) ==
    IF toks = <<>> THEN <<>>
    ELSE IF Len(toks) = 1 THEN Head(toks)
    ELSE Head(toks) \o <<" ">> \o Join(Tail(toks))

KeyRate == <<"r", "a", "t", "e">>
KeyUser == <<"u", "s", "e", "r">>

\* tokens of a dump: names, byte counts, other keys, a flag column
TokenSet ==
    { Tok(KeyName, <<"a">>),
      Tok(KeyName, <<"\"", "b", "\"">>),
      Tok(KeyBytesUp, <<"3">>),
      Tok(KeyBytesUp, <<"1">> \o KiB),
      Tok(KeyBytesDown, <<"1", "2", ".", "5">> \o MiB),
      Tok(KeyBytesDown, <<"\"", "2">> \o GiB \o <<"\"">>),
      Tok(KeyBytesUp, <<"1", "0", "T", "i", "B">>),
      Tok(KeyRate, <<"7">>),
      Tok(KeyRate, <<"1", "0", "T", "i", "B">>),
      Tok(KeyUser, <<"\"", "x", "=", "y", "\"">>),
      <<"D">> }

TokenSeqs == UNION { [1..n -> TokenSet] : n \in 0..MaxTokens }

\* 2^53 + 1, which no double holds
OddNumeral ==
    <<"9", "0", "0", "7", "1", "9", "9", "2", "5", "4", "7", "4", "0", "9", "9", "3">>

Numerals ==
    { <<"1">>, <<"2">>, <<"0">>, <<"5", "1", "2">>, <<"1", "2", ".", "5">>,
      <<"0", ".", "5">>, <<".", "5">>, <<"5", ".">>, <<"0", "0", "7">>,
      <<"1", ".", "5", "0">>, <<"1", "0">>, <<>>, <<".">>, <<"1", ".", "2", ".", "3">>,
      <<"0", ".", "1">>, <<"1", "e", "3">>, <<"2", ".", "5", "E", "-", "1">>,
      <<"+", "2">>, <<"-", "1">>, <<"-", "0">>, <<"1", "_", "0">>, <<"_", "1">>,
      <<"1", "e">>, <<"i", "n", "f">>, <<"-", "I", "n", "f", "i", "n", "i", "t", "y">>,
      <<"N", "a", "N">>, <<"1", "e", "4", "0", "0">>, OddNumeral,
      <<"U+0663">>, <<"1", "U+FF10">>, <<"²">>,
      <<"1", "e", "-", "1", "0", "0", "0", "0", "0", "0">>,
      <<"1", "e", "0", "0", "0", "0", "0", "0", "0", "0", "0", "0", "1">> }

Units ==
    { <<>>, KiB, MiB, GiB, <<"T", "i", "B">>, <<"B">>, <<"K", "B">>,
      <<"k", "i", "b">>, <<"K", "i", "B", "s">>, <<"K", "i">>, <<"T">> \o KiB,
      <<"e">>, <<"i", "n", "f">>, <<"n", "a", "n">> }

\* a dump of one device with one byte count
BytesFile(key, numeral, unit, quoted) ==
    Join(<<Tok(KeyName, <<"a">>),
           Tok(key, IF quoted THEN <<"\"">> \o numeral \o unit \o <<"\"">>
                              ELSE numeral \o unit)>>)

\* a dump whose tokens are set apart by the character sep, with end at its end
SeparatedFile(sep, end) ==
    Tok(KeyName, <<"a">>) \o <<sep>> \o Tok(KeyBytesUp, <<"3">>) \o end

ParseInputs ==
    { Join(ts) : ts \in TokenSeqs }
    \cup { BytesFile(k, n, u, q) : k \in {KeyBytesUp, KeyBytesDown},
                                   n \in Numerals, u \in Units, q \in BOOLEAN }
    \cup { SeparatedFile(sep, end) : sep \in Whitespace \cup {","},
                                     end \in {<<>>, <<"\n">>, <<"\r", "\n">>, <<NBSP>>} }

InitParse ==
    /\ RunInit
    /\ now = Clock(2024, 6, 2, 0, 5, 0, 0)
    /\ arg \in [contents : ParseInputs]
    /\ ret = [done |-> FALSE]

\* the dictionary kc with the observations process_file takes from it
Parsed(kc) == [done |-> TRUE, err |-> kc.err, h |-> kc.h, obs |-> Observations(kc.h)]

\* parse_contents(contents), then the loop of process_file over the names
ParseFile ==
    /\ ~ret.done
    /\ ret' = Parsed(parse_contents(arg.contents))
    /\ UNCHANGED <<arg, runVars>>

NextParse == ParseFile

SpecParse == InitParse /\ [][NextParse]_vars

----------------------------------------------------------------------------
(* the timestamp of a capture file, on bounded clocks and file names *)

ClockSet ==
    { Clock(y, mo, d, h, mi, s, us) :
        y \in {2023, 2024}, mo \in {1, 3, 6, 12}, d \in {1, 2, 30},
        h \in {0, 12, 23}, mi \in {0, 5, 50}, s \in {0, 30}, us \in {0, 1} }

FileNames ==
    { <<"2", "3", "-", "5", "0">>,
      <<"0", "0", "-", "0", "5">>,
      <<"1", "2", "-", "0", "0">>,
      <<"0", "0", "-", "0", "0">>,
      <<"2", "3", "-", "5", "0", ".", "t", "x", "t">>,
      <<"2", "4", "-", "0", "0">>,
      <<"1", "2", "-", "6", "0">>,
      <<"x", "x", "-", "y", "y">>,
      <<"-", "1", "-", "3", "0">>,
      <<"1", "2", "-">>,
      <<"7">>,
      <<"+", "1", "-", "3", "0">>,
      <<" ", "1", "-", " ", "5">>,
      <<"9", "\t", "-", NBSP, "7">>,
      <<FS, "1", "-", "0", "0">>,
      <<"1", "_", "-", "0", "0">>,
      <<"+", " ", "-", "0", "0">>,
      <<"U+0661", "U+0662", "-", "0", "U+0665">>,
      <<"U+2003", "1", "-", "0", "0">> }

InitResolve ==
    /\ RunInit
    /\ now = Clock(2024, 6, 2, 0, 5, 0, 0)
    /\ arg \in [clock : ClockSet, filename : FileNames]
    /\ ret = [done |-> FALSE]

Resolved(r) == [done |-> TRUE, err |-> r.err, dt |-> r.dt]

ResolveFile ==
    /\ ~ret.done
    /\ ret' = Resolved(ResolveTimestamp(arg.clock, arg.filename))
    /\ UNCHANGED <<arg, runVars>>

NextResolve == ResolveFile

SpecResolve == InitResolve /\ [][NextResolve]_vars

----------------------------------------------------------------------------
(* Claims about the timestamp of a capture file (SpecResolve) *)

\* file names whose first five characters are a valid HH-MM, with the hour and minute they spell
ValidNames ==
    { [text |-> <<"2", "3", "-", "5", "0">>, hh |-> 23, mm |-> 50],
      [text |-> <<"0", "0", "-", "0", "5">>, hh |-> 0, mm |-> 5],
      [text |-> <<"1", "2", "-", "0", "0">>, hh |-> 12, mm |-> 0],
      [text |-> <<"0", "0", "-", "0", "0">>, hh |-> 0, mm |-> 0],
      [text |-> <<"2", "3", "-", "5", "0", ".", "t", "x", "t">>, hh |-> 23, mm |-> 50],
      [text |-> <<"+", "1", "-", "3", "0">>, hh |-> 1, mm |-> 30],
      [text |-> <<" ", "1", "-", " ", "5">>, hh |-> 1, mm |-> 5] }

\* the calendar day before the day of clock c
PrevDay(c) ==
    IF c.day > 1 THEN <<c.year, c.month, c.day - 1>>
    ELSE IF c.month > 1 THEN <<c.year, c.month - 1, DaysInMonth(c.year, c.month - 1)>>
    ELSE <<c.year - 1, 12, 31>>

\* today at hh:mm is strictly later than clock c
InFuture(c, hh, mm) ==
    LexLess(<<c.hour, c.minute, c.second, c.microsecond>>, <<hh, mm, 0, 0>>)

\* C1: in date-missing mode the resolved timestamp is HH:MM on the previous
\* calendar day when today at HH:MM is strictly later than now (also on the
\* first day of a month or a year), and today at HH:MM otherwise.
C1_RollsBackOneCalendarDay ==
    ret.done =>
        \A v \in ValidNames :
            arg.filename = v.text =>
                LET date == IF InFuture(arg.clock, v.hh, v.mm)
                            THEN PrevDay(arg.clock)
                            ELSE <<arg.clock.year, arg.clock.month, arg.clock.day>>
                IN  /\ ret.err = NoError
                    /\ <<ret.dt.year, ret.dt.month, ret.dt.day>> = date
                    /\ <<ret.dt.hour, ret.dt.minute, ret.dt.second>> = <<v.hh, v.mm, 0>>

----------------------------------------------------------------------------
(* Claims about parse_contents and the byte counts of a file (SpecParse) *)

\* numerals with the decimal they denote
NumeralTable ==
    { [text |-> <<"1">>, value |-> Finite(FALSE, <<1>>, 0)],
      [text |-> <<"2">>, value |-> Finite(FALSE, <<2>>, 0)],
      [text |-> <<"0">>, value |-> Finite(FALSE, <<>>, 0)],
      [text |-> <<"1", "0">>, value |-> Finite(FALSE, <<1, 0>>, 0)],
      [text |-> <<"5", "1", "2">>, value |-> Finite(FALSE, <<5, 1, 2>>, 0)],
      [text |-> <<"0", "0", "7">>, value |-> Finite(FALSE, <<7>>, 0)],
      [text |-> <<"1", "2", ".", "5">>, value |-> Finite(FALSE, <<1, 2, 5>>, 1)],
      [text |-> <<"0", ".", "5">>, value |-> Finite(FALSE, <<5>>, 1)],
      [text |-> <<".", "5">>, value |-> Finite(FALSE, <<5>>, 1)],
      [text |-> <<"5", ".">>, value |-> Finite(FALSE, <<5>>, 0)],
      [text |-> <<"1", ".", "5", "0">>, value |-> Finite(FALSE, <<1, 5>>, 1)],
      [text |-> <<"0", ".", "1">>, value |-> Finite(FALSE, <<1>>, 1)],
      [text |-> <<"1", "e", "3">>, value |-> Finite(FALSE, <<1, 0, 0, 0>>, 0)],
      [text |-> <<"2", ".", "5", "E", "-", "1">>, value |-> Finite(FALSE, <<2, 5>>, 2)],
      [text |-> <<"+", "2">>, value |-> Finite(FALSE, <<2>>, 0)],
      [text |-> <<"-", "1">>, value |-> Finite(TRUE, <<1>>, 0)],
      [text |-> <<"1", "_", "0">>, value |-> Finite(FALSE, <<1, 0>>, 0)],
      [text |-> <<"U+0663">>, value |-> Finite(FALSE, <<3>>, 0)],
      [text |-> <<"1", "U+FF10">>, value |-> Finite(FALSE, <<1, 0>>, 0)],
      [text |-> <<"-", "0">>, value |-> Finite(TRUE, <<>>, 0)],
      [text |-> OddNumeral,
       value |-> Finite(FALSE, <<9, 0, 0, 7, 1, 9, 9, 2, 5, 4, 7, 4, 0, 9, 9, 3>>, 0)],
      [text |-> <<"1", "e", "4", "0", "0">>, value |-> Finite(FALSE, <<1>> \o Zeros(400), 0)],
      [text |-> <<"1", "e", "-", "1", "0", "0", "0", "0", "0", "0">>,
       value |-> Finite(FALSE, <<1>>, 1000000)],
      [text |-> <<"1", "e", "0", "0", "0", "0", "0", "0", "0", "0", "0", "0", "1">>,
       value |-> Finite(FALSE, <<1, 0>>, 0)] }

\* inf, infinity and nan, which float() reads in any case of the letters
WordTable ==
    { [text |-> <<"i", "n", "f">>, value |-> Inf(FALSE)],
      [text |-> <<"-", "I", "n", "f", "i", "n", "i", "t", "y">>, value |-> Inf(TRUE)],
      [text |-> <<"N", "a", "N">>, value |-> NaN] }

\* ds + ds: a digit of five or more carries one to the digit before it
TwiceDigits(ds) ==
    LET carry(i) == IF i <= Len(ds) /\ ds[i] >= 5 THEN 1 ELSE 0
    IN  (IF carry(1) = 1 THEN <<1>> ELSE <<>>)
        \o [i \in 1..Len(ds) |-> (ds[i] + ds[i] + carry(i + 1)) % 10]

\* x + x
Twice(x) == Canon([x EXCEPT !.digits = TwiceDigits(x.digits)])

RECURSIVE Doubled(_, _)
Doubled(x, n) ==
    IF n = 0 THEN x
    ELSE LET y == Twice(x)
         IN  \* the test makes TLC evaluate y before the next doubling
             IF y.frac >= 0 THEN Doubled(y, n - 1) ELSE y

\* the binary exponent of a unit
UnitShift(u) ==
    IF u = KiB THEN 10 ELSE IF u = MiB THEN 20 ELSE IF u = GiB THEN 30 ELSE 0

OneDevice(key, x) ==
    <<[name |-> <<"a">>, fields |-> [k \in {key} |-> PyFloat(x)]]>>

UnitTable == {<<>>, KiB, MiB, GiB}

\* the four values the specification gives
C4_Examples ==
    /\ arg.contents = BytesFile(KeyBytesUp, <<"1">>, KiB, FALSE) =>
          ret.obs[1].bytes_up = Finite(FALSE, <<1, 0, 2, 4>>, 0)
    /\ arg.contents = BytesFile(KeyBytesUp, <<"1">>, MiB, FALSE) =>
          ret.obs[1].bytes_up = Finite(FALSE, <<1, 0, 4, 8, 5, 7, 6>>, 0)
    /\ arg.contents = BytesFile(KeyBytesDown, <<"2">>, GiB, FALSE) =>
          ret.obs[1].bytes_down = Finite(FALSE, <<2, 1, 4, 7, 4, 8, 3, 6, 4, 8>>, 0)
    /\ arg.contents = BytesFile(KeyBytesDown, <<"5", "1", "2">>, <<>>, FALSE) =>
          ret.obs[1].bytes_down = Finite(FALSE, <<5, 1, 2>>, 0)

\* C4 (as stated): the byte count parsed from a numeral and an optional unit
\* is the numeral times 2^10 (KiB), 2^20 (MiB), 2^30 (GiB) or 1 (no unit), for
\* either key, quoted or not; 1KiB = 1024, 1MiB = 1048576, 2GiB = 2147483648,
\* 512 = 512.
C4_ParsedByteCount ==
    ret.done =>
        /\ \A n \in NumeralTable, u \in UnitTable,
              k \in {KeyBytesUp, KeyBytesDown}, q \in BOOLEAN :
              arg.contents = BytesFile(k, n.text, u, q) =>
                  /\ ret.err = NoError
                  /\ ret.h = OneDevice(k, Doubled(n.value, UnitShift(u)))
        /\ C4_Examples

\* the double f with its binary exponent raised by s, as repr() prints it
ShiftedOf(f, s) ==
    IF f.kind # "finite" \/ f.digits = <<>> THEN f
    ELSE FromDouble(f.neg, ShiftExponent(NearestDouble(Significand(f), PowerOfTen(f)), s))

\* the double nearest to the decimal v, with its binary exponent raised by s
ShiftedDouble(v, s) ==
    IF v.kind # "finite" THEN v ELSE ShiftedOf(FloatOf(v.neg, v.digits, 0 - v.frac), s)

\* the decimal y is printed for a double as it stands: at most 15 significant
\* digits, well inside the range of the doubles
PrintedExactly(y) ==
    /\ Len(Significand(y)) <= 15
    /\ Len(y.digits) - y.frac >= -300
    /\ Len(y.digits) - y.frac <= 300

\* the product of the numeral of value v by 2^s is the byte count x
ExactWhenShort(v, s, x) ==
    PrintedExactly(Doubled(v, s)) => x = Doubled(v, s)

\* C4 (amended): the byte count is the double nearest to the numeral with its
\* binary exponent raised by 10, 20 or 30 (KiB, MiB, GiB), the product of
\* float(numeral) by 1024, 1024^2 or 1024^3 in double arithmetic: a numeral
\* no double holds is rounded first (2^53 + 1 reads as 2^53), one beyond the
\* doubles is inf, and inf and nan stay what they are.  Where the numeral times
\* the unit has at most 15 significant digits the byte count is that product
\* (1KiB = 1024, 1MiB = 1048576, 2GiB = 2147483648, 512 = 512).  Either key,
\* quoted or not.
C4_DoubleByteCount ==
    ret.done =>
        /\ \A n \in NumeralTable \cup WordTable, u \in UnitTable,
              k \in {KeyBytesUp, KeyBytesDown}, q \in BOOLEAN :
              arg.contents = BytesFile(k, n.text, u, q) =>
                  /\ ret.err = NoError
                  /\ ret.h = OneDevice(k, ShiftedDouble(n.value, UnitShift(u)))
                  /\ n.value.kind = "finite" =>
                        ExactWhenShort(n.value, UnitShift(u), ret.h[1].fields[k].num)
        /\ C4_Examples

\* 2^53 + 1 with KiB is 2^63, printed 9.223372036854776e+18
C4_Witness ==
    /\ ret.done
    /\ arg.contents = BytesFile(KeyBytesUp, OddNumeral, KiB, TRUE)
    /\ ret.err = NoError
    /\ ret.obs = <<[name |-> <<"a">>,
                    bytes_up |-> Finite(FALSE, <<9, 2, 2, 3, 3, 7, 2, 0, 3, 6, 8, 5, 4, 7, 7, 6,
                                                 0, 0, 0>>, 0),
                    bytes_down |-> Zero]>>

\* unit suffixes outside KiB, MiB, GiB
BadUnits ==
    { <<"T", "i", "B">>, <<"B">>, <<"K", "B">>, <<"k", "i", "b">>,
      <<"K", "i", "B", "s">>, <<"K", "i">>, <<"T">> \o KiB,
      <<"e">>, <<"i", "n", "f">>, <<"n", "a", "n">> }

BadByteTokens ==
    { Tok(k, v) : k \in {KeyBytesUp, KeyBytesDown},
                  v \in UNION { { n.text \o u, <<"\"">> \o n.text \o u \o <<"\"">> } :
                                n \in NumeralTable, u \in BadUnits } }

\* C5: a file holding a bytes-up or bytes-down value whose unit suffix is not
\* KiB, MiB or GiB makes parsing fail; no dictionary and no observation comes
\* out of it.
C5_UnknownUnitFails ==
    ret.done =>
        ((\E i \in 1..Len(Split(arg.contents)) : Split(arg.contents)[i] \in BadByteTokens)
            => /\ ret.err # NoError
               /\ ret.h = <<>>
               /\ ret.obs = <<>>)

C5_Witness ==
    /\ ret.done
    /\ arg.contents = BytesFile(KeyBytesUp, <<"1", "0">>, <<"T", "i", "B">>, FALSE)
    /\ ret.err = "ValueError"
    /\ ret.obs = <<>>

\* the text of a token before and after its first "="
TokKey(t) == Head(SplitEq(t))
TokValue(t) == SubSeq(t, Len(TokKey(t)) + 2, Len(t))

IsNameTok(t) == Contains(t, "=") /\ TokKey(t) = KeyName

IsUnknownTok(t) ==
    Contains(t, "=") /\ TokKey(t) \notin {KeyName, KeyBytesUp, KeyBytesDown}

Without(toks, i) == SubSeq(toks, 1, i - 1) \o SubSeq(toks, i + 1, Len(toks))

\* the device whose block token i of toks lies in: the last name= before it
OwnerOf(toks, i) ==
    LET ps == {j \in 1..(i - 1) : IsNameTok(toks[j])}
    IN  StripQuotes(TokValue(toks[CHOOSE j \in ps : \A k \in ps : k <= j]))

\* C8: a token with an unrecognised key inside a device block, whatever its
\* value, never makes parsing fail: a file that parses without the token parses
\* with it, to the same observations, and the value is kept under its key
\* (looked at where the token is the last of the file).
C8_UnknownKeyHarmless ==
    ret.done =>
        LET toks == Split(arg.contents)
        IN  \A i \in 1..Len(toks) :
                (/\ IsUnknownTok(toks[i])
                 /\ \E j \in 1..(i - 1) : IsNameTok(toks[j])
                 /\ parse_contents(Join(Without(toks, i))).err = NoError)
                => /\ ret.err = NoError
                   /\ ret.obs = Observations(parse_contents(Join(Without(toks, i))).h)
                   /\ i = Len(toks) =>
                        \E e \in 1..Len(ret.h) :
                            /\ ret.h[e].name = OwnerOf(toks, i)
                            /\ TokKey(toks[i]) \in DOMAIN ret.h[e].fields
                            /\ ret.h[e].fields[TokKey(toks[i])]
                                 = PyStr(StripQuotes(TokValue(toks[i])))

\* the positions of the name= tokens, and the block each one starts
NamePositions(toks) == {i \in 1..Len(toks) : IsNameTok(toks[i])}

BlockEnd(toks, i) ==
    LET later == {j \in NamePositions(toks) : j > i}
    IN  IF later = {} THEN Len(toks)
        ELSE (CHOOSE j \in later : \A k \in later : j <= k) - 1

BlockName(toks, i) == StripQuotes(TokValue(toks[i]))

\* the byte count block i gives for key: its last token of that key, or zero
BlockBytes(toks, i, key) ==
    LET ps == {k \in (i + 1)..BlockEnd(toks, i) :
                  Contains(toks[k], "=") /\ TokKey(toks[k]) = key}
    IN  IF ps = {} THEN Zero
        ELSE ParseBytes(StripQuotes(TokValue(toks[CHOOSE k \in ps : \A m \in ps : m <= k]))).val

BlockObservation(toks, i) ==
    [name |-> BlockName(toks, i),
     bytes_up |-> BlockBytes(toks, i, KeyBytesUp),
     bytes_down |-> BlockBytes(toks, i, KeyBytesDown)]

IsLastOfName(toks, i) ==
    \A j \in NamePositions(toks) : j > i => BlockName(toks, j) # BlockName(toks, i)

ObsOf(obs, name) == {k \in 1..Len(obs) : obs[k].name = name}

\* C9 (as stated): for every device block, the observation upserted for its
\* name has the block's own byte counts, zero for a missing one, and one
\* observation is upserted per device name.
C9_EveryBlockObserved ==
    (ret.done /\ ret.err = NoError) =>
        LET toks == Split(arg.contents)
        IN  /\ \A i \in NamePositions(toks) :
                  /\ Cardinality(ObsOf(ret.obs, BlockName(toks, i))) = 1
                  /\ \A k \in ObsOf(ret.obs, BlockName(toks, i)) :
                        ret.obs[k] = BlockObservation(toks, i)
            /\ \A k \in 1..Len(ret.obs) :
                  \E i \in NamePositions(toks) : BlockName(toks, i) = ret.obs[k].name

\* C9 (amended): the same for the last block of each device name; an earlier
\* block of a repeated name contributes nothing.
C9_LastBlockObserved ==
    (ret.done /\ ret.err = NoError) =>
        LET toks == Split(arg.contents)
        IN  /\ \A i \in NamePositions(toks) :
                  /\ Cardinality(ObsOf(ret.obs, BlockName(toks, i))) = 1
                  /\ IsLastOfName(toks, i) =>
                        \A k \in ObsOf(ret.obs, BlockName(toks, i)) :
                            ret.obs[k] = BlockObservation(toks, i)
            /\ \A k \in 1..Len(ret.obs) :
                  \E i \in NamePositions(toks) : BlockName(toks, i) = ret.obs[k].name

\* two blocks: the first has a bytes-up token, the second has none and gets zero
C9_Witness ==
    /\ ret.done
    /\ arg.contents = Join(<<Tok(KeyName, <<"a">>), Tok(KeyBytesUp, <<"3">>),
                             Tok(KeyName, <<"\"", "b", "\"">>)>>)
    /\ ret.err = NoError
    /\ ret.obs = <<[name |-> <<"a">>, bytes_up |-> Finite(FALSE, <<3>>, 0),
                    bytes_down |-> Zero],
                   [name |-> <<"b">>, bytes_up |-> Zero, bytes_down |-> Zero]>>

----------------------------------------------------------------------------
(* A run of the script: main under the module-level try/except *)

MaxRuns == 2
MaxFiles == 2

RunClocks ==
    { Clock(2024, 6, 1, 0, 5, 0, 0), Clock(2024, 6, 2, 0, 5, 0, 0),
      Clock(2024, 6, 3, 0, 5, 0, 0) }

\* two files of one HH-MM, the hour of the first written with a sign
RunNames ==
    { <<"+", "9", "-", "5", "0">>, <<"0", "9", "-", "5", "0", ".", "1">> }

RunContents ==
    { Join(<<Tok(KeyName, <<"a">>), Tok(KeyBytesUp, <<"1">> \o KiB),
             Tok(KeyBytesDown, <<"2">>)>>),
      Tok(KeyName, <<"a">>) \o <<"\f">> \o Tok(KeyBytesUp, <<"3">>) \o <<"\r", "\n">>
          \o Tok(KeyName, <<"b">>) \o <<" ">> \o Tok(KeyBytesUp, <<"n", "a", "n">>)
          \o <<"\t">> \o Tok(KeyBytesDown, <<"1", "e", "3">>),
      Join(<<Tok(KeyName, <<"a">>), Tok(KeyBytesUp, <<"1", "0", "T", "i", "B">>)>>) }

\* what os.listdir can return: files of distinct names, in any order
Listings ==
    { l \in UNION { [1..n -> [filename : RunNames, contents : RunContents]] :
                    n \in 0..MaxFiles } :
        \A i, j \in 1..Len(l) : i # j => l[i].filename # l[j].filename }

Init ==
    /\ RunInit
    /\ now = Clock(2024, 6, 1, 0, 5, 0, 0)
    /\ arg = [contents |-> <<>>]
    /\ ret = [done |-> FALSE]

\* the script is started: nothing is left of the run before but the committed
\* table
NewRun ==
    /\ pc \in {"idle", "exited"}
    /\ runs < MaxRuns
    /\ runs' = runs + 1
    /\ txn' = db
    /\ dbBefore' = db
    /\ upserted' = <<>>
    /\ processed' = 0
    /\ caught' = 0
    /\ scpErr' = FALSE
    /\ listing' = <<>>
    /\ pending' = <<>>
    /\ UNCHANGED <<db, now, arg, ret>>

\* logging.config.dictConfig(logconfig) raises (info.log cannot be opened):
\* the try statement is not reached, the interpreter prints the traceback and
\* ends with status 1; nothing is logged
ConfigFails ==
    /\ NewRun
    /\ pc' = "exited"
    /\ runLog' = <<>>
    /\ exitStatus' = 1

\* logger.info('started'), parse_arguments, the connection, CREATE TABLE IF
\* NOT EXISTS
Start ==
    /\ NewRun
    /\ pc' = "started"
    /\ runLog' = <<"started">>
    /\ UNCHANGED exitStatus

\* parse_args leaves by SystemExit, which is no Exception: status 2 after a
\* usage error, 0 after --help; the except clause does not run
ArgumentsExit ==
    /\ NewRun
    /\ \E status \in {0, 2} :
          /\ pc' = "exited"
          /\ runLog' = <<"started">>
          /\ exitStatus' = status

\* sqlite3.connect or CREATE TABLE raises (the file is no database, is locked
\* or cannot be created)
ConnectFails ==
    /\ NewRun
    /\ pc' = "raised"
    /\ runLog' = <<"started">>
    /\ UNCHANGED exitStatus

\* --print: the rows of one name are selected and main returns (standard
\* output is not part of the state)
PrintRows ==
    /\ pc = "started"
    /\ pc' = "returned"
    /\ UNCHANGED <<db, txn, listing, pending, now, runLog, exitStatus, caught,
                   scpErr, runs, dbBefore, upserted, processed, arg, ret>>

\* what scp wrote to its standard error: nothing, text, or bytes that are
\* not UTF-8
Stderr == {"none", "text", "undecodable"}

\* the temporary directory, scp into it, then os.listdir(dirname)
Scp ==
    /\ pc = "started"
    /\ \E spawned \in BOOLEAN, err \in Stderr, exists \in BOOLEAN, files \in Listings :
          IF ~spawned
          THEN \* TemporaryDirectory or Popen raises: scp did not run
               /\ pc' = "raised"
               /\ scpErr' = FALSE
               /\ UNCHANGED <<runLog, listing>>
          ELSE IF err = "undecodable"
          THEN \* err.decode('utf-8') raises before anything is logged
               /\ pc' = "raised"
               /\ scpErr' = TRUE
               /\ UNCHANGED <<runLog, listing>>
          ELSE /\ scpErr' = (err = "text")
               /\ runLog' = IF err = "text" THEN Append(runLog, "scp error") ELSE runLog
               /\ IF exists
                  THEN pc' = "listing" /\ listing' = files
                  ELSE pc' = "raised" /\ UNCHANGED listing
    /\ UNCHANGED <<db, txn, pending, now, exitStatus, caught, runs, dbBefore,
                   upserted, processed, arg, ret>>

\* process_file up to its loop, with the result r of its parsing and
\* resolving: the clock is read once the file is parsed
Processed(r, clock) ==
    /\ now' = IF r.clockRead THEN clock ELSE now
    /\ pc' = IF r.err # NoError THEN "raised" ELSE "listing"
    /\ pending' = r.rows

\* process_file up to its loop: the file is read and parsed, the clock is
\* read and the timestamp resolved
ProcessFile ==
    /\ pc = "listing"
    /\ listing # <<>>
    /\ pending = <<>>
    /\ \E readable \in BOOLEAN, clock \in RunClocks :
          IF ~readable
          THEN \* open or read raises (a directory, no permission, bytes that
               \* are not text)
               pc' = "raised" /\ pending' = <<>> /\ UNCHANGED now
          ELSE Processed(process_file(clock, Head(listing).filename,
                                      Head(listing).contents), clock)
    /\ listing' = Tail(listing)
    /\ processed' = processed + 1
    /\ UNCHANGED <<db, txn, runLog, exitStatus, caught, scpErr, runs, dbBefore,
                   upserted, arg, ret>>

\* one cur.execute of the loop of process_file
Execute ==
    /\ pc = "listing"
    /\ pending # <<>>
    /\ txn' = Upsert(txn, Head(pending))
    /\ upserted' = Append(upserted, Head(pending))
    /\ pending' = Tail(pending)
    /\ UNCHANGED <<pc, db, listing, now, runLog, exitStatus, caught, scpErr,
                   runs, dbBefore, processed, arg, ret>>

\* cur.execute raises (the store is locked, full or gone)
ExecuteFails ==
    /\ pc = "listing"
    /\ pending # <<>>
    /\ pc' = "raised"
    /\ pending' = <<>>
    /\ UNCHANGED <<db, txn, listing, now, runLog, exitStatus, caught, scpErr,
                   runs, dbBefore, upserted, processed, arg, ret>>

\* the listing is done: con.commit(), logger.info('stopped')
Commit ==
    /\ pc = "listing"
    /\ listing = <<>>
    /\ pending = <<>>
    /\ db' = AfterCommit(db, txn)
    /\ runLog' = Append(runLog, "stopped")
    /\ pc' = "returned"
    /\ UNCHANGED <<txn, listing, pending, now, exitStatus, caught, scpErr, runs,
                   dbBefore, upserted, processed, arg, ret>>

\* the listing is done and con.commit() raises (the database is locked):
\* every row was upserted, none is committed
CommitFails ==
    /\ pc = "listing"
    /\ listing = <<>>
    /\ pending = <<>>
    /\ pc' = "raised"
    /\ UNCHANGED <<db, txn, listing, pending, now, runLog, exitStatus, caught,
                   scpErr, runs, dbBefore, upserted, processed, arg, ret>>

\* except Exception: logger.exception("Fatal error"); the script then ends,
\* and the connection goes without a commit
Catch ==
    /\ pc = "raised"
    /\ runLog' = Append(runLog, "Fatal error")
    /\ caught' = caught + 1
    /\ pc' = "exited"
    /\ exitStatus' = 0
    /\ txn' = db
    /\ UNCHANGED <<db, listing, pending, now, scpErr, runs, dbBefore, upserted,
                   processed, arg, ret>>

\* main returned: the script ends
Exit ==
    /\ pc = "returned"
    /\ pc' = "exited"
    /\ exitStatus' = 0
    /\ txn' = db
    /\ UNCHANGED <<db, listing, pending, now, runLog, caught, scpErr, runs,
                   dbBefore, upserted, processed, arg, ret>>

Next ==
    \/ ConfigFails
    \/ Start
    \/ ArgumentsExit
    \/ ConnectFails
    \/ PrintRows
    \/ Scp
    \/ ProcessFile
    \/ Execute
    \/ ExecuteFails
    \/ Commit
    \/ CommitFails
    \/ Catch
    \/ Exit

Spec == Init /\ [][Next]_vars

----------------------------------------------------------------------------
(* Claims about the table and the run (Spec) *)

UniqueIdentity(rows) ==
    \A i, j \in 1..Len(rows) : SameIdentity(rows[i], rows[j]) => i = j

\* C2: after any sequence of upserts, within one run or across runs, the
\* table holds at most one row for every identity (timestamp, name), committed
\* or not.
C2_OneRowPerIdentity == UniqueIdentity(db) /\ UniqueIdentity(txn)

\* a second run has upserted an identity the first run committed
C2_Witness ==
    /\ runs = 2
    /\ upserted # <<>>
    /\ \E j \in 1..Len(dbBefore) : SameIdentity(dbBefore[j], upserted[Len(upserted)])
    /\ Len(txn) = Len(dbBefore)
    /\ Len(txn) >= 2

\* C3: after upsert(t, n, u, d) the table holds exactly one row of identity
\* (t, n), with byte counts (u, d), whether or not one existed: a new identity
\* is appended, an existing one has its byte counts replaced; the rows of other
\* identities stay as they were and repeating the upsert changes nothing.
C3_UpsertReplaces ==
    [][ (pc = "listing" /\ pending # <<>> /\ upserted' = Append(upserted, Head(pending)))
        => LET o == Head(pending)
               existed == \E i \in 1..Len(txn) : SameIdentity(txn[i], o)
           IN  /\ Cardinality({i \in 1..Len(txn') : SameIdentity(txn'[i], o)}) = 1
               /\ \A i \in 1..Len(txn') : SameIdentity(txn'[i], o) => txn'[i] = o
               /\ Len(txn') = IF existed THEN Len(txn) ELSE Len(txn) + 1
               /\ \A i \in 1..Len(txn) : ~SameIdentity(txn[i], o) => txn'[i] = txn[i]
               /\ Upsert(txn', o) = txn'
      ]_vars

\* the last upsert replaced the byte counts of a committed row by other ones
C3_Witness ==
    /\ upserted # <<>>
    /\ \E k \in 1..Len(txn) : txn[k] = upserted[Len(upserted)]
    /\ \E j \in 1..Len(dbBefore) :
          /\ SameIdentity(dbBefore[j], upserted[Len(upserted)])
          /\ dbBefore[j] # upserted[Len(upserted)]

\* C6: a run that failed (a parse error, a store error, a missing input
\* directory) has its failure caught once, logged, and ends with a non-zero
\* exit status; a run that ends with status zero completed without failure.
C6_FailureExitsNonZero ==
    pc = "exited" =>
        /\ caught > 0 => /\ caught = 1
                         /\ runLog[Len(runLog)] = "Fatal error"
                         /\ exitStatus # 0
        /\ exitStatus = 0 => caught = 0

\* C7: when scp reports an error the run is aborted: no file is processed
\* afterwards and no row is upserted or committed in that run.
C7_ScpErrorAborts ==
    scpErr => /\ processed = 0
              /\ upserted = <<>>
              /\ db = dbBefore

RECURSIVE ApplyAll(_, _)
ApplyAll(rows, obs) ==
    IF obs = <<>> THEN rows ELSE ApplyAll(Upsert(rows, Head(obs)), Tail(obs))

\* C10: a run commits once, after every listed file has been processed: the
\* committed table changes only in the step that ends the listing, and then to
\* everything the run upserted; a run that failed leaves the committed table
\* as it was before the run.
C10_CommitOnceAtEnd ==
    [][ /\ db' # db =>
            /\ pc = "listing" /\ listing = <<>> /\ pending = <<>>
            /\ pc' = "returned"
        /\ (pc' = "returned" /\ runLog'[Len(runLog')] = "stopped") =>
            db' = ApplyAll(dbBefore', upserted')
        /\ (pc' = "raised" \/ caught' > 0) => db' = dbBefore'
      ]_vars

\* a first run committed its rows; the second upserted others, failed, and
\* left the committed table as the first run made it
C10_Witness ==
    /\ runs = 2
    /\ pc = "exited"
    /\ caught = 1
    /\ db # <<>>
    /\ db = dbBefore
    /\ upserted # <<>>
    /\ ApplyAll(dbBefore, upserted) # db

====
